---------------------------- MODULE Spec2Model ----------------------------
(***************************************************************************)
(* The run-record service of server.js: an in-memory array `runs` served   *)
(* by four Express handlers (list, create, delete, health) and the pure    *)
(* function calculatePace.                                                 *)
(*                                                                         *)
(* JavaScript values are modelled as records [t, v]:                       *)
(*   t = "undefined" | "null" | "number" | "string"                        *)
(* A number is an extended rational [n, d]: n/d with d > 0 in lowest terms *)
(* for a finite value, d = 0 for the three non-finite values (NaN is 0/0,  *)
(* Infinity is 1/0, -Infinity is -1/0).  A string is a sequence of         *)
(* one-character strings, so that parsing and formatting are computed      *)
(* character by character.                                                 *)
(***************************************************************************)
EXTENDS Integers, Sequences, FiniteSets

(***************************************************************************)
(* Numbers                                                                 *)
(***************************************************************************)
NaN == [n |-> 0, d |-> 0]

Infinity == [n |-> 1, d |-> 0]

NegInfinity == [n |-> -1, d |-> 0]

Abs(k) == IF k < 0 THEN -k ELSE k

Sign(k) == IF k < 0 THEN -1 ELSE IF k > 0 THEN 1 ELSE 0

RECURSIVE Gcd(_, _)
Gcd(a, b) == IF b = 0 THEN a ELSE Gcd(b, a % b)

\* The finite number p/q (q # 0), in lowest terms with a positive denominator.
Ratio(p, q) ==
  LET g == Gcd(Abs(p), Abs(q))
  IN  [n |-> Sign(q) * (p \div g), d |-> Abs(q) \div g]

FromInt(k) == [n |-> k, d |-> 1]

IsNaN(x) == x.d = 0 /\ x.n = 0

IsFinite(x) == x.d > 0

\* x / y of two numbers (IEEE 754 on the extended rationals; zero is unsigned).
Divide(x, y) ==
  IF IsNaN(x) \/ IsNaN(y) THEN NaN
  ELSE IF ~IsFinite(x)
    THEN IF ~IsFinite(y) THEN NaN
         ELSE [n |-> x.n * (IF y.n < 0 THEN -1 ELSE 1), d |-> 0]
  ELSE IF ~IsFinite(y) THEN FromInt(0)
  ELSE IF y.n = 0
    THEN [n |-> Sign(x.n), d |-> 0]
  ELSE Ratio(x.n * y.d, x.d * y.n)

\* x - y of two numbers.
Minus(x, y) ==
  IF IsNaN(x) \/ IsNaN(y) THEN NaN
  ELSE IF ~IsFinite(x)
    THEN IF ~IsFinite(y) /\ x.n = y.n THEN NaN ELSE x
  ELSE IF ~IsFinite(y) THEN [n |-> -y.n, d |-> 0]
  ELSE Ratio(x.n * y.d - y.n * x.d, x.d * y.d)

\* x * y of two numbers.
Times(x, y) ==
  IF IsNaN(x) \/ IsNaN(y) THEN NaN
  ELSE IF ~IsFinite(x) \/ ~IsFinite(y)
    THEN [n |-> Sign(x.n) * Sign(y.n), d |-> 0]
  ELSE Ratio(x.n * y.n, x.d * y.d)

\* Math.floor: the greatest integer not above x; a non-finite x is returned.
MathFloor(x) == IF IsFinite(x) THEN FromInt(x.n \div x.d) ELSE x

\* Math.round: the integer nearest to x, a tie going up (floor(x + 1/2)).
MathRound(x) ==
  IF IsFinite(x) THEN FromInt((2 * x.n + x.d) \div (2 * x.d)) ELSE x

\* x === y of two numbers: NaN equals nothing, itself included.
StrictEquals(x, y) == ~IsNaN(x) /\ ~IsNaN(y) /\ x = y

(***************************************************************************)
(* Strings and values                                                      *)
(***************************************************************************)
Digits == <<"0", "1", "2", "3", "4", "5", "6", "7", "8", "9">>

IsDigit(c) == \E i \in 1..10 : Digits[i] = c

DigitValue(c) == (CHOOSE i \in 1..10 : Digits[i] = c) - 1

Undefined == [t |-> "undefined", v |-> <<>>]

Null == [t |-> "null", v |-> <<>>]

Num(x) == [t |-> "number", v |-> x]

Str(s) == [t |-> "string", v |-> s]

RECURSIVE NatToString(_)
\* The decimal digits of a natural number.
NatToString(k) ==
  IF k < 10 THEN <<Digits[k + 1]>>
  ELSE NatToString(k \div 10) \o <<Digits[(k % 10) + 1]>>

RECURSIVE FractionDigits(_, _)
\* The decimal digits of p/q, 0 <= p < q, q a divisor of a power of ten.
FractionDigits(p, q) ==
  IF p = 0 THEN <<>>
  ELSE <<Digits[((10 * p) \div q) + 1]>> \o FractionDigits((10 * p) % q, q)

\* Number::toString for radix 10.  Finite values are written in positional
\* notation (the exponent form JavaScript switches to at 1e21 and below 1e-6
\* is outside the numbers the model enumerates).
NumberToString(x) ==
  IF IsNaN(x) THEN <<"N", "a", "N">>
  ELSE IF ~IsFinite(x)
    THEN (IF x.n < 0 THEN <<"-">> ELSE <<>>)
         \o <<"I", "n", "f", "i", "n", "i", "t", "y">>
  ELSE LET a == Abs(x.n)
           whole == a \div x.d
           frac == a % x.d
       IN  (IF x.n < 0 THEN <<"-">> ELSE <<>>)
           \o NatToString(whole)
           \o (IF frac = 0 THEN <<>> ELSE <<".">> \o FractionDigits(frac, x.d))

\* ToString (the abstract operation) of a value.
ToStr(val) ==
  CASE val.t = "undefined" -> <<"u", "n", "d", "e", "f", "i", "n", "e", "d">>
    [] val.t = "null" -> <<"n", "u", "l", "l">>
    [] val.t = "number" -> NumberToString(val.v)
    [] val.t = "string" -> val.v

\* String.prototype.padStart(targetLength, padString) for a one-character pad.
PadStart(s, targetLength, pad) ==
  [i \in 1..(IF Len(s) < targetLength THEN targetLength ELSE Len(s)) |->
     IF Len(s) < targetLength /\ i <= targetLength - Len(s)
       THEN pad
       ELSE s[i - (IF Len(s) < targetLength THEN targetLength - Len(s) ELSE 0)]]

RECURSIVE DigitRun(_, _)
\* The length of the run of decimal digits of s that starts at position i.
DigitRun(s, i) ==
  IF i <= Len(s) /\ IsDigit(s[i]) THEN 1 + DigitRun(s, i + 1) ELSE 0

RECURSIVE DigitsToNat(_, _, _)
\* The natural number written by the k digits of s that start at position i.
DigitsToNat(s, i, k) ==
  IF k = 0 THEN 0
  ELSE 10 * DigitsToNat(s, i, k - 1) + DigitValue(s[i + k - 1])

RECURSIVE Pow10(_)
Pow10(k) == IF k = 0 THEN 1 ELSE 10 * Pow10(k - 1)

\* The longest prefix of s, from position 1, that is a signed decimal literal
\* (sign, digits, optional point and digits; exponents are not in the model's
\* alphabet).  The result is [len, val]; len = 0 when there is no such prefix.
DecimalPrefix(s) ==
  LET sg == IF Len(s) >= 1 /\ s[1] \in {"-", "+"} THEN 1 ELSE 0
      neg == sg = 1 /\ s[1] = "-"
      wl == DigitRun(s, sg + 1)
      dot == (sg + wl + 1 <= Len(s)) /\ s[sg + wl + 1] = "."
      fl == IF dot THEN DigitRun(s, sg + wl + 2) ELSE 0
      w == DigitsToNat(s, sg + 1, wl)
      f == DigitsToNat(s, sg + wl + 2, fl)
      mag == Ratio(w * Pow10(fl) + f, Pow10(fl))
      val == IF neg THEN Ratio(-mag.n, mag.d) ELSE mag
  IN  IF wl = 0 /\ fl = 0 THEN [len |-> 0, val |-> NaN]
      ELSE [len |-> sg + wl + (IF dot THEN 1 + fl ELSE 0), val |-> val]

\* The global parseFloat: ToString of the argument, then the longest decimal
\* prefix; NaN when there is none.
parseFloat(val) == DecimalPrefix(ToStr(val)).val

\* The global parseInt without a radix: ToString of the argument, then an
\* optional sign and the longest run of decimal digits; NaN when there is none.
parseInt(val) ==
  LET s == ToStr(val)
      sg == IF Len(s) >= 1 /\ s[1] \in {"-", "+"} THEN 1 ELSE 0
      wl == DigitRun(s, sg + 1)
      w == DigitsToNat(s, sg + 1, wl)
  IN  IF wl = 0 THEN NaN
      ELSE FromInt(IF sg = 1 /\ s[1] = "-" THEN -w ELSE w)

\* ToNumber, the coercion the operator / applies to its operands: the whole
\* string must be a numeric literal, the empty string is 0.
ToNumber(val) ==
  CASE val.t = "undefined" -> NaN
    [] val.t = "null" -> FromInt(0)
    [] val.t = "number" -> val.v
    [] val.t = "string" ->
         IF val.v = <<>> THEN FromInt(0)
         ELSE LET p == DecimalPrefix(val.v)
              IN  IF p.len = Len(val.v) THEN p.val ELSE NaN

\* ToBoolean: what `!x` negates.
ToBoolean(val) ==
  CASE val.t = "undefined" -> FALSE
    [] val.t = "null" -> FALSE
    [] val.t = "number" -> ~IsNaN(val.v) /\ val.v # FromInt(0)
    [] val.t = "string" -> val.v # <<>>

(***************************************************************************)
(* calculatePace                                                           *)
(***************************************************************************)
\* A pace whose seconds are truncated instead of rounded.
calculatePaceFloor(distance, duration) ==
  LET paceInMinutes == Divide(ToNumber(duration), ToNumber(distance))
      minutes == MathFloor(paceInMinutes)
      seconds == MathFloor(Times(Minus(paceInMinutes, minutes), FromInt(60)))
  IN  NumberToString(minutes) \o <<":">>
        \o PadStart(NumberToString(seconds), 2, "0")

calculatePace(distance, duration) ==
  LET paceInMinutes == Divide(ToNumber(duration), ToNumber(distance))
      minutes == MathFloor(paceInMinutes)
      seconds == MathRound(Times(Minus(paceInMinutes, minutes), FromInt(60)))
  IN  NumberToString(minutes) \o <<":">>
        \o PadStart(NumberToString(seconds), 2, "0")

(***************************************************************************)
(* Bounds and the requests the model enumerates                            *)
(***************************************************************************)
\* The number of runs created after the two seed records.
MaxCreates == 2

\* The number of exchanges that the specifications SpecTwo and SpecConc log.
MaxExchanges == 3

\* The fields of a request body are undefined (absent), null, numbers or
\* strings; JSON booleans, arrays and objects are not enumerated.  Strings are
\* written with digits, ".", "-" and letters other than the exponent and radix
\* markers, so a numeric string is a plain decimal literal.

SeedDate1 == <<"2", "0", "2", "4", "-", "0", "1", "-", "1", "5">>

SeedDate2 == <<"2", "0", "2", "4", "-", "0", "1", "-", "1", "7">>

DateValues == {Undefined, Str(SeedDate1)}

DistanceValues == {Str(<<>>), Num(FromInt(0)), Num(Ratio(52, 10))}

DurationValues == {Undefined, Num(FromInt(28)), Str(<<"1", "8">>)}

LocationValues == {Undefined, Str(<<"P", "a", "r", "k">>)}

\* The JSON bodies of POST /api/runs.
Bodies ==
  [date : DateValues, distance : DistanceValues,
   duration : DurationValues, location : LocationValues]

\* The :id segments of DELETE /api/runs/:id.
IdParams == {<<"1">>, <<"2">>, <<"3">>, <<"4">>, <<"2", "x">>, <<"x">>}

Timestamps == {"t1", "t2"}

\* The wider bodies that the single create of SpecCreate draws from.
WideDistances ==
  {Undefined, Null, Str(<<>>), Num(FromInt(0)), Num(Ratio(52, 10)),
   Num(Ratio(31, 10)), Num(Ratio(121, 10)), Num(FromInt(10)), Num(FromInt(8)),
   Num(Ratio(-52, 10)), Str(<<"5", ".", "2">>), Str(<<"0">>),
   Str(<<"1", "0", "k">>)}

WideDurations ==
  {Undefined, Null, Str(<<>>), Num(FromInt(0)), Num(FromInt(28)),
   Num(FromInt(18)), Num(FromInt(12)), Num(FromInt(50)), Num(FromInt(9)),
   Num(Ratio(285, 10)), Str(<<"2", "8">>), Str(<<"0">>),
   Str(<<"2", "8", ".", "5">>), Str(<<"1", "8", "m">>)}

WideBodies ==
  [date : {Undefined, Str(<<>>), Str(SeedDate1)}, distance : WideDistances,
   duration : WideDurations, location : {Undefined}]

NoBody ==
  [date |-> Undefined, distance |-> Undefined,
   duration |-> Undefined, location |-> Undefined]

(***************************************************************************)
(* State                                                                   *)
(***************************************************************************)
VARIABLES
  runs,   \* the array `runs`
  born,   \* for each position of runs, when its record entered the array
  clock,  \* the number of records that have entered the array so far
  req,    \* the request handled last
  res,    \* the response to it
  recent  \* the runs returned by the successful creates that came directly
          \* before the last request, oldest first, the last two at most

\* A second instance of the service, the requests in flight in one instance,
\* and the run of the deploy script; each is used by one specification and
\* stays idle in the others.
VARIABLES
  peer,      \* the second instance: its array `runs`, last request, response
  inflight,  \* requests received whose handler has not run yet
  log,       \* the exchanges completed, in the order the handlers ran
  pc,        \* deploy script: the function and instruction being executed
  stack,     \* deploy script: the callers to return to
  euid,      \* deploy script: $EUID
  arg,       \* deploy script: $1
  ran,       \* deploy script: the external commands executed so far
  printed,   \* deploy script: the messages printed so far
  last,      \* deploy script: $?
  status,    \* deploy script: its exit status, -1 while it runs
  failed     \* deploy script: the command whose failure ended it, if any

appVars == <<runs, born, clock, req, res, recent>>

concVars == <<inflight, log>>

shVars == <<pc, stack, euid, arg, ran, printed, last, status, failed>>

vars == <<runs, born, clock, req, res, recent, peer, inflight, log,
          pc, stack, euid, arg, ran, printed, last, status, failed>>

SeedRuns ==
  << [id |-> 1, date |-> Str(SeedDate1), distance |-> Ratio(52, 10),
      duration |-> FromInt(28), pace |-> <<"5", ":", "2", "3">>,
      location |-> Str(<<"C", "e", "n", "t", "r", "a", "l", " ",
                         "P", "a", "r", "k">>)],
     [id |-> 2, date |-> Str(SeedDate2), distance |-> Ratio(31, 10),
      duration |-> FromInt(18), pace |-> <<"5", ":", "4", "8">>,
      location |-> Str(<<"R", "i", "v", "e", "r", "s", "i", "d", "e", " ",
                         "T", "r", "a", "i", "l">>)] >>

\* No second instance.
PeerIdle == peer = <<>>

\* No request in flight is tracked.
ConcIdle == inflight = {} /\ log = <<>>

\* The deploy script is not run.
ScriptIdle ==
  /\ pc = <<>>
  /\ stack = <<>>
  /\ euid = 1000
  /\ arg = ""
  /\ ran = {}
  /\ printed = {}
  /\ last = 0
  /\ status = -1
  /\ failed = ""

\* The service after start-up.
InitApp ==
  /\ runs = SeedRuns
  /\ born = <<1, 2>>
  /\ clock = 2
  /\ req = [op |-> "none", body |-> NoBody, id |-> <<>>]
  /\ res = [status |-> 0, body |-> <<>>]
  /\ recent = <<>>

Init == InitApp /\ PeerIdle /\ ConcIdle /\ ScriptIdle

(***************************************************************************)
(* Array operations                                                        *)
(***************************************************************************)
\* Array.prototype.unshift of one element: it enters at the front.
unshift(arr, x) == <<x>> \o arr

\* Array.prototype.push of one element.
push(arr, x) == Append(arr, x)

\* Array.prototype.splice(index, 1) for 1 <= index <= Len(arr) (positions
\* count from 1 here, from 0 in the source).
splice(arr, index) ==
  [i \in 1..(Len(arr) - 1) |-> IF i < index THEN arr[i] ELSE arr[i + 1]]

\* A findIndex that scans from the end: the last position whose id equals id.
findLastIndex(arr, id) ==
  IF \E i \in 1..Len(arr) : StrictEquals(FromInt(arr[i].id), id)
    THEN CHOOSE i \in 1..Len(arr) :
           /\ StrictEquals(FromInt(arr[i].id), id)
           /\ \A j \in (i + 1)..Len(arr) : ~StrictEquals(FromInt(arr[j].id), id)
    ELSE 0

\* runs.findIndex(run => run.id === id): the first position whose id equals
\* id, 0 when there is none (-1 in the source).
findIndex(arr, id) ==
  IF \E i \in 1..Len(arr) : StrictEquals(FromInt(arr[i].id), id)
    THEN CHOOSE i \in 1..Len(arr) :
           /\ StrictEquals(FromInt(arr[i].id), id)
           /\ \A j \in 1..(i - 1) : ~StrictEquals(FromInt(arr[j].id), id)
    ELSE 0

\* The exchange just completed becomes the one before the last: a successful
\* create extends the streak of creates, anything else ends it.
Remember ==
  LET all == Append(recent, res.body)
  IN  recent' = IF req.op = "create" /\ res.status = 201
                  THEN (IF Len(all) > 2 THEN Tail(all) ELSE all)
                  ELSE <<>>

(***************************************************************************)
(* Handlers                                                                *)
(***************************************************************************)
\* A list that answers runs.reverse(), which reverses the array in place.
ListRunsReversed ==
  LET reverse(arr) == [i \in 1..Len(arr) |-> arr[Len(arr) + 1 - i]]
  IN  /\ req' = [op |-> "list", body |-> NoBody, id |-> <<>>]
      /\ res' = [status |-> 200, body |-> reverse(runs)]
      /\ runs' = reverse(runs)
      /\ born' = reverse(born)
      /\ Remember
      /\ UNCHANGED clock

\* app.get('/api/runs')
ListRuns ==
  /\ req' = [op |-> "list", body |-> NoBody, id |-> <<>>]
  /\ res' = [status |-> 200, body |-> runs]
  /\ Remember
  /\ UNCHANGED <<runs, born, clock>>

\* A validation that tests the numbers the fields coerce to: !Number(x).
MissingFieldNumeric(b) ==
  \/ ~ToBoolean(b.date)
  \/ ~ToBoolean(Num(ToNumber(b.distance)))
  \/ ~ToBoolean(Num(ToNumber(b.duration)))

\* A validation that forgets the date.
MissingFieldNoDate(b) == ~ToBoolean(b.distance) \/ ~ToBoolean(b.duration)

\* The validation of app.post('/api/runs'): true when the request is refused.
MissingField(b) ==
  ~ToBoolean(b.date) \/ ~ToBoolean(b.distance) \/ ~ToBoolean(b.duration)

\* An id one above the greatest id in the array.
NewIdAboveMax(arr) ==
  IF arr = <<>> THEN 1
  ELSE 1 + (CHOOSE m \in {arr[i].id : i \in 1..Len(arr)} :
              \A i \in 1..Len(arr) : arr[i].id <= m)

\* The id app.post('/api/runs') gives the run it creates.
NewId(arr) == Len(arr) + 1

\* The record app.post('/api/runs') builds.
NewRun(arr, b) ==
  [id |-> NewId(arr),
   date |-> b.date,
   distance |-> parseFloat(b.distance),
   duration |-> parseInt(b.duration),
   pace |-> calculatePace(b.distance, b.duration),
   location |-> IF ToBoolean(b.location) THEN b.location
                ELSE Str(<<"U", "n", "k", "n", "o", "w", "n">>)]

\* A create that renumbers the whole array after the push.
CreateRunRenumbering(b) ==
  LET pushed == push(runs, NewRun(runs, b))
      renumbered == [i \in 1..Len(pushed) |-> [pushed[i] EXCEPT !.id = i]]
  IN  /\ req' = [op |-> "create", body |-> b, id |-> <<>>]
      /\ Remember
      /\ IF MissingField(b)
           THEN /\ res' = [status |-> 400,
                           body |-> [error |-> "Missing required fields"]]
                /\ UNCHANGED <<runs, born, clock>>
           ELSE /\ clock < 2 + MaxCreates
                /\ runs' = renumbered
                /\ born' = push(born, clock + 1)
                /\ clock' = clock + 1
                /\ res' = [status |-> 201, body |-> renumbered[Len(pushed)]]

\* app.post('/api/runs')
CreateRun(b) ==
  /\ req' = [op |-> "create", body |-> b, id |-> <<>>]
  /\ Remember
  /\ IF MissingField(b)
       THEN /\ res' = [status |-> 400,
                       body |-> [error |-> "Missing required fields"]]
            /\ UNCHANGED <<runs, born, clock>>
       ELSE /\ clock < 2 + MaxCreates
            /\ runs' = push(runs, NewRun(runs, b))
            /\ born' = push(born, clock + 1)
            /\ clock' = clock + 1
            /\ res' = [status |-> 201, body |-> NewRun(runs, b)]

\* A delete without the 404 branch: splice(-1, 1) removes the last record.
DeleteRunUnchecked(param) ==
  LET id == parseInt(Str(param))
      index == IF findIndex(runs, id) = 0 THEN Len(runs) ELSE findIndex(runs, id)
  IN  /\ req' = [op |-> "delete", body |-> NoBody, id |-> param]
      /\ Remember
      /\ res' = [status |-> 204, body |-> <<>>]
      /\ runs' = IF index = 0 THEN runs ELSE splice(runs, index)
      /\ born' = IF index = 0 THEN born ELSE splice(born, index)
      /\ UNCHANGED clock

\* app.delete('/api/runs/:id')
DeleteRun(param) ==
  LET id == parseInt(Str(param))
      index == findIndex(runs, id)
  IN  /\ req' = [op |-> "delete", body |-> NoBody, id |-> param]
      /\ Remember
      /\ IF index = 0
           THEN /\ res' = [status |-> 404, body |-> [error |-> "Run not found"]]
                /\ UNCHANGED <<runs, born, clock>>
           ELSE /\ runs' = splice(runs, index)
                /\ born' = splice(born, index)
                /\ res' = [status |-> 204, body |-> <<>>]
                /\ UNCHANGED clock

\* A health check that looks at the collection and fails when it is empty.
HealthChecked(now) ==
  /\ req' = [op |-> "health", body |-> NoBody, id |-> <<>>]
  /\ res' = IF runs = <<>>
              THEN [status |-> 503,
                    body |-> [status |-> "unhealthy", timestamp |-> now]]
              ELSE [status |-> 200,
                    body |-> [status |-> "healthy", timestamp |-> now]]
  /\ Remember
  /\ UNCHANGED <<runs, born, clock>>

\* app.get('/health')
Health(now) ==
  /\ req' = [op |-> "health", body |-> NoBody, id |-> <<>>]
  /\ res' = [status |-> 200, body |-> [status |-> "healthy", timestamp |-> now]]
  /\ Remember
  /\ UNCHANGED <<runs, born, clock>>

Next ==
  \/ ListRuns /\ UNCHANGED <<peer, concVars, shVars>>
  \/ \E b \in Bodies : CreateRun(b) /\ UNCHANGED <<peer, concVars, shVars>>
  \/ \E param \in IdParams :
       DeleteRun(param) /\ UNCHANGED <<peer, concVars, shVars>>
  \/ \E now \in Timestamps :
       Health(now) /\ UNCHANGED <<peer, concVars, shVars>>

Spec == Init /\ [][Next]_vars

\* One create, of any of the wider bodies, handled right after start-up.
CreateOnce ==
  \E b \in WideBodies :
    req.op = "none" /\ CreateRun(b) /\ UNCHANGED <<peer, concVars, shVars>>

NextCreate == CreateOnce

SpecCreate == Init /\ [][NextCreate]_vars

(***************************************************************************)
(* The handlers as functions of the array, for a second instance           *)
(***************************************************************************)
ListRequest == [op |-> "list", body |-> NoBody, id |-> <<>>]

CreateRequest(b) == [op |-> "create", body |-> b, id |-> <<>>]

DeleteRequest(param) == [op |-> "delete", body |-> NoBody, id |-> param]

\* What a handler makes of the array arr and the request r: the array
\* afterwards and the response.
Handled(arr, r) ==
  CASE r.op = "list" ->
         [runs |-> arr, res |-> [status |-> 200, body |-> arr]]
    [] r.op = "create" ->
         IF MissingField(r.body)
           THEN [runs |-> arr,
                 res |-> [status |-> 400,
                          body |-> [error |-> "Missing required fields"]]]
           ELSE [runs |-> push(arr, NewRun(arr, r.body)),
                 res |-> [status |-> 201, body |-> NewRun(arr, r.body)]]
    [] r.op = "delete" ->
         LET index == findIndex(arr, parseInt(Str(r.id)))
         IN  IF index = 0
               THEN [runs |-> arr,
                     res |-> [status |-> 404,
                              body |-> [error |-> "Run not found"]]]
               ELSE [runs |-> splice(arr, index),
                     res |-> [status |-> 204, body |-> <<>>]]

\* The requests that the two instances of SpecTwo and the concurrent clients
\* of SpecConc send.
FewBodies ==
  { [date |-> Str(SeedDate1), distance |-> Num(Ratio(52, 10)),
     duration |-> Num(FromInt(28)), location |-> Undefined],
    [date |-> Undefined, distance |-> Num(Ratio(52, 10)),
     duration |-> Num(FromInt(28)), location |-> Undefined] }

FewRequests ==
  {ListRequest} \cup {CreateRequest(b) : b \in FewBodies}
    \cup {DeleteRequest(param) : param \in {<<"1">>, <<"3">>}}

(***************************************************************************)
(* Two instances side by side                                              *)
(***************************************************************************)
\* The exchange of instance inst that the step completes enters the log.
Logged(inst, r, response) ==
  /\ Len(log) < MaxExchanges
  /\ log' = Append(log, [inst |-> inst, req |-> r, res |-> response])

\* The first instance serves r with its handlers, on its own array.
ServeFirst(r) ==
  /\ CASE r.op = "list" -> ListRuns
       [] r.op = "create" -> CreateRun(r.body)
       [] r.op = "delete" -> DeleteRun(r.id)
  /\ Logged(1, r, res')
  /\ UNCHANGED <<peer, inflight, shVars>>

\* A second instance that works on the array of the first one.
ServePeerShared(r) ==
  /\ Handled(runs, r).res.status = 201 => Len(runs) < Len(SeedRuns) + MaxCreates
  /\ runs' = Handled(runs, r).runs
  /\ Logged(2, r, Handled(runs, r).res)
  /\ UNCHANGED <<born, clock, req, res, recent, peer, inflight, shVars>>

\* The second instance serves r with the same handlers, on its own array.
ServePeer(r) ==
  /\ Handled(peer, r).res.status = 201 => Len(peer) < Len(SeedRuns) + MaxCreates
  /\ peer' = Handled(peer, r).runs
  /\ Logged(2, r, Handled(peer, r).res)
  /\ UNCHANGED <<appVars, inflight, shVars>>

\* Each process evaluates `let runs = [...]` when it starts.
InitTwo ==
  /\ InitApp
  /\ peer = SeedRuns
  /\ ConcIdle
  /\ ScriptIdle

NextTwo ==
  \/ \E r \in FewRequests : ServeFirst(r)
  \/ \E r \in FewRequests : ServePeer(r)

SpecTwo == InitTwo /\ [][NextTwo]_vars

(***************************************************************************)
(* Concurrently arriving requests in one process                           *)
(***************************************************************************)
\* A request arrives and waits for the event loop; seen is the length of the
\* collection at its arrival.
Arrive(r) ==
  /\ Cardinality(inflight) + Len(log) < MaxExchanges
  /\ inflight' = inflight \cup
                   {[k |-> Cardinality(inflight) + Len(log) + 1,
                     req |-> r, seen |-> Len(runs)]}
  /\ UNCHANGED <<appVars, log, peer, shVars>>

\* A handler with a suspension point between reading runs.length and the push:
\* the id comes from the length that the request saw when it arrived.
HandleStale(e) ==
  /\ e \in inflight
  /\ IF e.req.op = "create" /\ ~MissingField(e.req.body)
       THEN LET newRun == [NewRun(runs, e.req.body) EXCEPT !.id = e.seen + 1]
            IN  /\ clock < 2 + MaxCreates
                /\ req' = e.req
                /\ Remember
                /\ runs' = push(runs, newRun)
                /\ born' = push(born, clock + 1)
                /\ clock' = clock + 1
                /\ res' = [status |-> 201, body |-> newRun]
       ELSE CASE e.req.op = "list" -> ListRuns
              [] e.req.op = "create" -> CreateRun(e.req.body)
              [] e.req.op = "delete" -> DeleteRun(e.req.id)
  /\ log' = Append(log, [inst |-> 1, req |-> e.req, res |-> res',
                         seen |-> e.seen])
  /\ inflight' = inflight \ {e}
  /\ UNCHANGED <<peer, shVars>>

\* The event loop runs the handler of one waiting request from its first
\* statement to its last: the handlers contain no await and no callback.
Handle(e) ==
  /\ e \in inflight
  /\ CASE e.req.op = "list" -> ListRuns
       [] e.req.op = "create" -> CreateRun(e.req.body)
       [] e.req.op = "delete" -> DeleteRun(e.req.id)
  /\ log' = Append(log, [inst |-> 1, req |-> e.req, res |-> res',
                         seen |-> e.seen])
  /\ inflight' = inflight \ {e}
  /\ UNCHANGED <<peer, shVars>>

NextConc ==
  \/ \E r \in FewRequests : Arrive(r)
  \/ \E e \in inflight : Handle(e)

SpecConc == Init /\ [][NextConc]_vars

(***************************************************************************)
(* The deploy script: statements                                           *)
(***************************************************************************)
\* A simple command that runs a program; under `set -e` a non-zero exit
\* status of it ends the script.
run(c) == [op |-> "run", cmd |-> c]

\* A program whose exit status the shell does not act on: a command
\* substitution inside a word, a pipeline member that is not the last, the
\* left side of ||.
quiet(c) == [op |-> "quiet", cmd |-> c]

\* `if c; then` or `if ! c; then` on a program: the statements up to the
\* label other run when the program succeeds (neg = FALSE) or fails
\* (neg = TRUE).
ifrun(c, neg, other) == [op |-> "ifrun", cmd |-> c, neg |-> neg, other |-> other]

\* The same on a builtin test: `command -v`, `[ -f ... ]`.
iftest(t, neg, other) ==
  [op |-> "iftest", cmd |-> t, neg |-> neg, other |-> other]

\* `if ! f; then` on a function of the script.
ifcall(f, neg, other) ==
  [op |-> "ifcall", cmd |-> f, neg |-> neg, other |-> other]

\* `if [ $? -eq 0 ]; then`
ifstatus0(other) == [op |-> "ifstatus0", other |-> other]

\* `if [ "$EUID" -eq 0 ]; then`
ifroot(other) == [op |-> "ifroot", other |-> other]

\* echo and the print_ functions.
say(text) == [op |-> "say", cmd |-> text]

\* The end of a then-branch that has an else-branch.
goto(l) == [op |-> "goto", other |-> l]

\* else, fi, esac and the heads of the case branches.
label(l) == [op |-> "label", cmd |-> l]

\* A function of the script called as a simple command.
call(f) == [op |-> "call", cmd |-> f]

\* return n
return(n) == [op |-> "return", code |-> n]

\* exit n
exit(n) == [op |-> "exit", code |-> n]

\* case "${1:-}" in: the branch whose pattern is the argument, else *.
case(words) == [op |-> "case", words |-> words]

(***************************************************************************)
(* The deploy script: functions                                            *)
(***************************************************************************)
setup_kubernetes ==
  << say("Setting up Kubernetes on Linux..."),
     say("Updating system packages..."),
     run("sudo apt update"),
     iftest("command -v docker", TRUE, "has docker"),
     say("Installing Docker..."),
     run("sudo apt install dependencies"),
     quiet("curl docker gpg"),
     run("sudo gpg --dearmor"),
     quiet("dpkg --print-architecture"),
     quiet("lsb_release -cs"),
     run("sudo tee docker.list"),
     run("sudo apt update"),
     run("sudo apt install docker-ce"),
     run("sudo usermod -aG docker"),
     say("Docker installed! Applying group changes..."),
     run("newgrp docker"),
     goto("docker done"),
     label("has docker"),
     say("Docker is already installed"),
     label("docker done"),
     quiet("groups"),
     ifrun("grep -q docker", TRUE, "in group"),
     say("Adding user to docker group..."),
     run("sudo usermod -aG docker"),
     say("Applying group changes..."),
     run("newgrp docker"),
     label("in group"),
     iftest("command -v kubectl", TRUE, "has kubectl"),
     say("Installing kubectl..."),
     quiet("curl stable.txt"),
     run("curl -LO kubectl"),
     run("chmod +x kubectl"),
     run("sudo mv kubectl"),
     say("kubectl installed!"),
     goto("kubectl done"),
     label("has kubectl"),
     say("kubectl is already installed"),
     label("kubectl done"),
     iftest("command -v minikube", TRUE, "has minikube"),
     say("Installing minikube..."),
     run("curl -LO minikube"),
     run("sudo install minikube"),
     run("rm minikube-linux-amd64"),
     say("minikube installed!"),
     goto("minikube done"),
     label("has minikube"),
     say("minikube is already installed"),
     label("minikube done"),
     say("Starting Docker service..."),
     run("sudo systemctl start docker"),
     run("sudo systemctl enable docker"),
     say("Testing Docker..."),
     ifrun("docker ps", FALSE, "docker broken"),
     say("Docker is working!"),
     goto("docker tested"),
     label("docker broken"),
     say("Docker is not working. Trying to fix permissions..."),
     run("sudo chmod 666 docker.sock"),
     ifrun("docker ps", FALSE, "still broken"),
     say("Docker is now working!"),
     goto("docker fixed"),
     label("still broken"),
     say("Docker still not working. You may need to restart your session"),
     exit(1),
     label("docker fixed"),
     label("docker tested"),
     say("All tools installed successfully!") >>

start_kubernetes_cluster ==
  << say("Starting Kubernetes cluster..."),
     ifrun("minikube status", FALSE, "not running"),
     say("Minikube cluster is already running!"),
     return(0),
     label("not running"),
     say("Starting minikube cluster (this may take a few minutes)..."),
     run("minikube start"),
     say("Waiting for cluster to be ready..."),
     run("kubectl wait nodes"),
     say("Verifying cluster..."),
     run("kubectl cluster-info"),
     run("kubectl get nodes"),
     say("Kubernetes cluster is ready!") >>

check_kubernetes_installed ==
  << iftest("command -v docker && kubectl && minikube", FALSE, "missing"),
     return(0),
     label("missing"),
     return(1) >>

check_kubernetes_running ==
  << ifrun("kubectl cluster-info", FALSE, "down"),
     return(0),
     label("down"),
     return(1) >>

setup_environment ==
  << say("Checking environment..."),
     ifcall("check_kubernetes_installed", TRUE, "installed"),
     say("Kubernetes tools not found. Installing..."),
     call("setup_kubernetes"),
     goto("tools done"),
     label("installed"),
     say("Kubernetes tools are already installed!"),
     label("tools done"),
     ifcall("check_kubernetes_running", TRUE, "running"),
     say("Kubernetes cluster is not running. Starting..."),
     call("start_kubernetes_cluster"),
     goto("cluster done"),
     label("running"),
     say("Kubernetes cluster is already running!"),
     label("cluster done") >>

create_project_files ==
  << say("Checking project files..."),
     iftest("[ -f server.js ]", TRUE, "has server.js"),
     say("server.js not found!"),
     say("Please make sure you have these files in the current directory:"),
     exit(1),
     label("has server.js"),
     iftest("[ -f index.html ]", FALSE, "no index.html"),
     say("Creating public directory and copying frontend files..."),
     run("mkdir -p public"),
     run("cp index.html public/"),
     goto("copied"),
     label("no index.html"),
     iftest("[ -f Frontend index.html ]", FALSE, "no frontend"),
     say("Found 'Frontend index.html', copying to public/index.html..."),
     run("mkdir -p public"),
     run("cp Frontend index.html public/index.html"),
     label("no frontend"),
     label("copied"),
     say("Project files verified!") >>

build_image ==
  << say("Building Docker image..."),
     run("docker build"),
     ifstatus0("build failed"),
     say("Docker image built successfully!"),
     say("Loading image into minikube..."),
     run("minikube image load"),
     say("Image loaded into minikube!"),
     goto("built"),
     label("build failed"),
     say("Failed to build Docker image"),
     exit(1),
     label("built") >>

deploy_to_k8s ==
  << say("Deploying to Kubernetes..."),
     run("kubectl delete -f k8s-deployment.yaml"),
     run("sleep 5"),
     run("kubectl apply -f k8s-deployment.yaml"),
     ifstatus0("apply failed"),
     say("Application deployed to Kubernetes!"),
     goto("applied"),
     label("apply failed"),
     say("Failed to deploy to Kubernetes"),
     exit(1),
     label("applied"),
     say("Waiting for deployment to be ready..."),
     run("kubectl wait deployment/running-app"),
     ifstatus0("not ready"),
     say("Deployment is ready!"),
     goto("waited"),
     label("not ready"),
     say("Deployment might not be fully ready yet"),
     label("waited") >>

show_status ==
  << say("Deployment Status:"),
     say("=== Pods ==="),
     run("kubectl get pods"),
     say("=== Services ==="),
     run("kubectl get services"),
     say("=== Deployments ==="),
     run("kubectl get deployments"),
     quiet("kubectl get service running-app-service"),
     say("Application is running!"),
     say("Access your app at:"),
     say("Useful commands:"),
     say("Cleanup commands:") >>

cleanup ==
  << say("Cleaning up previous deployment..."),
     run("kubectl delete -f k8s-deployment.yaml"),
     run("sleep 5"),
     say("Cleanup completed!") >>

complete_cleanup ==
  << say("Performing complete cleanup..."),
     run("kubectl delete -f k8s-deployment.yaml"),
     say("Stopping minikube cluster..."),
     run("minikube stop"),
     say("Deleting minikube cluster..."),
     run("minikube delete"),
     say("Cleaning up Docker images..."),
     run("docker system prune -f"),
     say("Complete cleanup finished!"),
     say("To remove Kubernetes tools completely, run:") >>

\* A check that warns root and lets the script go on.
check_root_warning ==
  << ifroot("not root"),
     say("This script should not be run as root (with sudo)!"),
     label("not root") >>

check_root ==
  << ifroot("not root"),
     say("This script should not be run as root (with sudo)!"),
     say("Minikube doesn't work well with root privileges."),
     say("Please run without sudo: ./deploy.sh"),
     say("The script will ask for sudo password when needed."),
     exit(1),
     label("not root") >>

main ==
  << say("Running App Kubernetes Deployment"),
     call("check_root"),
     case({"clean", "complete-clean", "setup-only", "install-tools"}),
     label("clean"),
     call("cleanup"),
     exit(0),
     label("complete-clean"),
     call("complete_cleanup"),
     exit(0),
     label("setup-only"),
     call("setup_environment"),
     say("Setup complete! Run './deploy.sh' to deploy the app."),
     exit(0),
     label("install-tools"),
     call("setup_kubernetes"),
     say("Kubernetes tools installed! Run './deploy.sh' to deploy the app."),
     exit(0),
     label("*"),
     label("esac"),
     call("setup_environment"),
     call("create_project_files"),
     call("build_image"),
     call("deploy_to_k8s"),
     call("show_status"),
     say("Deployment complete!"),
     say("Quick commands:") >>

\* The statements of the file outside the functions: the banner and the call
\* of main.
script ==
  << say("Running Tracker App - Complete Setup & Deployment"),
     call("main") >>

\* The statements of the function f.
Code(f) ==
  CASE f = "script" -> script
    [] f = "main" -> main
    [] f = "check_root" -> check_root
    [] f = "setup_environment" -> setup_environment
    [] f = "check_kubernetes_installed" -> check_kubernetes_installed
    [] f = "check_kubernetes_running" -> check_kubernetes_running
    [] f = "setup_kubernetes" -> setup_kubernetes
    [] f = "start_kubernetes_cluster" -> start_kubernetes_cluster
    [] f = "create_project_files" -> create_project_files
    [] f = "build_image" -> build_image
    [] f = "deploy_to_k8s" -> deploy_to_k8s
    [] f = "show_status" -> show_status
    [] f = "cleanup" -> cleanup
    [] f = "complete_cleanup" -> complete_cleanup

(***************************************************************************)
(* The deploy script: execution under `set -e`                             *)
(***************************************************************************)
\* The words that the script's case statement is given.
Args == {"", "clean", "complete-clean", "setup-only", "install-tools"}

Running == pc # <<>>

\* The function has no statement left.
AtEnd == Running /\ pc[2] > Len(Code(pc[1]))

\* The statement to execute.
Instr == Code(pc[1])[pc[2]]

Is(o) == Running /\ ~AtEnd /\ Instr.op = o

\* The place of the label l in the function f.
LabelAt(f, l) ==
  CHOOSE i \in 1..Len(Code(f)) : Code(f)[i].op = "label" /\ Code(f)[i].cmd = l

Advance == pc' = <<pc[1], pc[2] + 1>>

GoTo(l) == pc' = <<pc[1], LabelAt(pc[1], l)>>

\* The shell ends with the exit status code.
Terminate(code) ==
  /\ pc' = <<>>
  /\ stack' = <<>>
  /\ status' = code

\* Some function on the frames fs was called as the condition of an if: the
\* shell ignores `set -e` until that function returns.
InCondition(fs) == \E k \in 1..Len(fs) : fs[k].cond

\* The branch of an if whose condition came out as ok.
Branch(ok) ==
  /\ IF ok # Instr.neg THEN Advance ELSE GoTo(Instr.other)
  /\ last' = 0

\* A program run as a simple command exits with 0 or not; `set -e` (line 6)
\* ends the script on a non-zero status.
StepRun ==
  /\ Is("run")
  /\ ran' = ran \cup {Instr.cmd}
  /\ \E code \in {0, 1} :
       /\ last' = code
       /\ IF code = 0
            THEN Advance /\ UNCHANGED <<stack, status, failed>>
            ELSE /\ failed' = Instr.cmd
                 /\ IF InCondition(stack)
                      THEN Advance /\ UNCHANGED <<stack, status>>
                      ELSE Terminate(code)
  /\ UNCHANGED <<appVars, peer, concVars, euid, arg, printed>>

StepQuiet ==
  /\ Is("quiet")
  /\ ran' = ran \cup {Instr.cmd}
  /\ Advance
  /\ UNCHANGED <<appVars, peer, concVars, stack, euid, arg, printed, last,
                 status, failed>>

StepIfRun ==
  /\ Is("ifrun")
  /\ ran' = ran \cup {Instr.cmd}
  /\ \E ok \in BOOLEAN : Branch(ok)
  /\ UNCHANGED <<appVars, peer, concVars, stack, euid, arg, printed, status,
                 failed>>

StepIfTest ==
  /\ Is("iftest")
  /\ \E ok \in BOOLEAN : Branch(ok)
  /\ UNCHANGED <<appVars, peer, concVars, stack, euid, arg, ran, printed,
                 status, failed>>

StepIfStatus0 ==
  /\ Is("ifstatus0")
  /\ IF last = 0 THEN Advance ELSE GoTo(Instr.other)
  /\ last' = 0
  /\ UNCHANGED <<appVars, peer, concVars, stack, euid, arg, ran, printed,
                 status, failed>>

StepIfRoot ==
  /\ Is("ifroot")
  /\ IF euid = 0 THEN Advance ELSE GoTo(Instr.other)
  /\ last' = 0
  /\ UNCHANGED <<appVars, peer, concVars, stack, euid, arg, ran, printed,
                 status, failed>>

StepSay ==
  /\ Is("say")
  /\ printed' = printed \cup {Instr.cmd}
  /\ last' = 0
  /\ Advance
  /\ UNCHANGED <<appVars, peer, concVars, stack, euid, arg, ran, status,
                 failed>>

StepGoto ==
  /\ Is("goto")
  /\ GoTo(Instr.other)
  /\ UNCHANGED <<appVars, peer, concVars, stack, euid, arg, ran, printed,
                 last, status, failed>>

StepLabel ==
  /\ Is("label")
  /\ Advance
  /\ UNCHANGED <<appVars, peer, concVars, stack, euid, arg, ran, printed,
                 last, status, failed>>

StepCase ==
  /\ Is("case")
  /\ IF arg \in Instr.words THEN GoTo(arg) ELSE GoTo("*")
  /\ UNCHANGED <<appVars, peer, concVars, stack, euid, arg, ran, printed,
                 last, status, failed>>

\* A call, as a simple command or as the condition of an if.
StepCall ==
  /\ Is("call") \/ Is("ifcall")
  /\ stack' = <<[f |-> pc[1], i |-> pc[2], cond |-> Instr.op = "ifcall"]>>
                \o stack
  /\ pc' = <<Instr.cmd, 1>>
  /\ UNCHANGED <<appVars, peer, concVars, euid, arg, ran, printed, last,
                 status, failed>>

\* return n, or the end of a function, whose status is that of its last
\* command. At the end of the file the shell exits with that status.
StepReturn ==
  /\ Is("return") \/ AtEnd
  /\ LET code == IF AtEnd THEN last ELSE Instr.code
         frame == Head(stack)
         caller == Code(frame.f)[frame.i]
     IN  IF stack = <<>>
           THEN Terminate(code) /\ last' = code /\ UNCHANGED failed
           ELSE IF frame.cond
             THEN /\ pc' = IF (code = 0) # caller.neg
                             THEN <<frame.f, frame.i + 1>>
                             ELSE <<frame.f, LabelAt(frame.f, caller.other)>>
                  /\ stack' = Tail(stack)
                  /\ last' = 0
                  /\ UNCHANGED <<status, failed>>
             ELSE /\ last' = code
                  /\ IF code # 0 /\ ~InCondition(Tail(stack))
                       THEN Terminate(code) /\ failed' = caller.cmd
                       ELSE /\ pc' = <<frame.f, frame.i + 1>>
                            /\ stack' = Tail(stack)
                            /\ UNCHANGED <<status, failed>>
  /\ UNCHANGED <<appVars, peer, concVars, euid, arg, ran, printed>>

StepExit ==
  /\ Is("exit")
  /\ Terminate(Instr.code)
  /\ last' = Instr.code
  /\ UNCHANGED <<appVars, peer, concVars, euid, arg, ran, printed, failed>>

\* The script is started by some user with some first argument.
InitDeploy ==
  /\ InitApp
  /\ PeerIdle
  /\ ConcIdle
  /\ pc = <<"script", 1>>
  /\ stack = <<>>
  /\ euid \in {0, 1000}
  /\ arg \in Args
  /\ ran = {}
  /\ printed = {}
  /\ last = 0
  /\ status = -1
  /\ failed = ""

NextDeploy ==
  \/ StepRun
  \/ StepQuiet
  \/ StepIfRun
  \/ StepIfTest
  \/ StepIfStatus0
  \/ StepIfRoot
  \/ StepSay
  \/ StepGoto
  \/ StepLabel
  \/ StepCase
  \/ StepCall
  \/ StepReturn
  \/ StepExit

SpecDeploy == InitDeploy /\ [][NextDeploy]_vars

(***************************************************************************)
(* Properties                                                              *)
(***************************************************************************)
\* The last request was a create that was accepted.
Created == req.op = "create" /\ res.status = 201

\* The integer a :id segment denotes.
IdOf(param) == parseInt(Str(param))

\* Some record of arr carries the id that param denotes.
HasId(arr, param) ==
  \E i \in 1..Len(arr) : IsFinite(IdOf(param)) /\ arr[i].id = IdOf(param).n

\* A field of a create body that is absent or empty.
AbsentOrEmpty(val) == val = Undefined \/ val = Null \/ val = Str(<<>>)

\* C1: in every reachable state no two runs of the collection have the same
\* id.
C1_UniqueIds ==
  \A i, j \in 1..Len(runs) : runs[i].id = runs[j].id => i = j

\* C2: a delete whose id some run carries answers 204 and removes exactly the
\* first position, in collection order, whose id matches; every other record
\* (a later one with the same id included) stays, unchanged and in order.
C2_DeleteRemovesFirstMatch ==
  [][(req'.op = "delete" /\ HasId(runs, req'.id)) =>
       /\ res'.status = 204
       /\ Len(runs') = Len(runs) - 1
       /\ \E k \in 1..Len(runs) :
            /\ runs[k].id = IdOf(req'.id).n
            /\ \A i \in 1..(k - 1) : runs[i].id # IdOf(req'.id).n
            /\ \A i \in 1..(k - 1) : runs'[i] = runs[i]
            /\ \A i \in k..(Len(runs) - 1) : runs'[i] = runs[i + 1]]_vars

\* A delete has removed a record while a later record with the same id stays.
C2_Witness ==
  /\ req.op = "delete"
  /\ res.status = 204
  /\ HasId(runs, req.id)
  /\ Len(runs) >= 2

\* C3: a delete whose id no run carries answers 404 and leaves the collection
\* as it was: same length, same records, same order.
C3_DeleteMissingNotFound ==
  [][(req'.op = "delete" /\ ~HasId(runs, req'.id)) =>
       /\ res'.status = 404
       /\ runs' = runs]_vars

\* A delete of an id nobody carries was answered, with runs in the collection.
C3_Witness ==
  /\ req.op = "delete"
  /\ res.status = 404
  /\ ~HasId(runs, req.id)
  /\ Len(runs) >= 3

\* C4: a create in which date, distance or duration is absent or empty
\* answers 400 and does not change the collection, whatever the other fields.
C4_MissingFieldRejected ==
  [][(/\ req'.op = "create"
      /\ \/ AbsentOrEmpty(req'.body.date)
         \/ AbsentOrEmpty(req'.body.distance)
         \/ AbsentOrEmpty(req'.body.duration)) =>
       /\ res'.status = 400
       /\ runs' = runs]_vars

\* A create with distance and duration present and the date absent was
\* refused, in a state other than the initial collection.
C4_Witness ==
  /\ req.op = "create"
  /\ res.status = 400
  /\ req.body.date = Undefined
  /\ ToBoolean(req.body.distance)
  /\ ToBoolean(req.body.duration)
  /\ runs # SeedRuns

\* The digits of an integer, with its sign.
SignedDigits(m) ==
  IF m < 0 THEN <<"-">> \o NatToString(-m) ELSE NatToString(m)

\* A count of seconds written with two digits at least.
TwoDigits(k) == IF k < 10 THEN <<"0">> \o NatToString(k) ELSE NatToString(k)

\* The pace the claim prescribes for a distance and a duration.  With
\* duration/distance the fraction P/Q (Q > 0), whole is the integer m with
\* m <= P/Q < m + 1 and seconds the integer k with k - 1/2 <= 60 * (P/Q - m)
\* < k + 1/2.  A quotient that is not finite is written as JavaScript writes
\* its floor, and the seconds derived from it are not a number.
ExpectedPace(distance, duration) ==
  LET x == ToNumber(duration)
      y == ToNumber(distance)
  IN  IF IsNaN(x) \/ IsNaN(y) \/ (x.n = 0 /\ y.n = 0)
        THEN <<"N", "a", "N", ":", "N", "a", "N">>
      ELSE IF y.n = 0
        THEN (IF x.n < 0 THEN <<"-">> ELSE <<>>)
             \o <<"I", "n", "f", "i", "n", "i", "t", "y", ":", "N", "a", "N">>
      ELSE LET P == x.n * y.d * Sign(y.n)
               Q == x.d * Abs(y.n)
               whole == CHOOSE m \in -Abs(P)..Abs(P) :
                          m * Q <= P /\ P < (m + 1) * Q
               F == P - whole * Q
               seconds == CHOOSE k \in 0..60 :
                            (2 * k - 1) * Q <= 120 * F /\ 120 * F < (2 * k + 1) * Q
           IN  SignedDigits(whole) \o <<":">> \o TwoDigits(seconds)

\* C5: for every accepted create the pace of the returned run is whole:seconds
\* with whole = floor(duration/distance) and seconds = round((duration/distance
\* - whole) * 60) padded with zeros to two digits; distance 5.2 and duration 28
\* give "5:23".
C5_PaceFormula ==
  Created =>
    /\ res.body.pace = ExpectedPace(req.body.distance, req.body.duration)
    /\ (/\ req.body.distance = Num(Ratio(52, 10))
        /\ req.body.duration = Num(FromInt(28)))
         => res.body.pace = <<"5", ":", "2", "3">>

\* An accepted create whose seconds needed a leading zero (9 minutes over 8
\* kilometres, a tie rounded up to 8 seconds).
C5_Witness ==
  /\ Created
  /\ req.body.distance = Num(FromInt(8))
  /\ req.body.duration = Num(FromInt(9))
  /\ res.body.pace = <<"1", ":", "0", "8">>

\* C6: every run of the collection has the pace that the pace computation
\* gives for that record's own stored distance and stored duration.
C6_PaceMatchesStoredFields ==
  \A i \in 1..Len(runs) :
    runs[i].pace = calculatePace(Num(runs[i].distance), Num(runs[i].duration))

\* C7: a successful create gives the new run the id (length of the collection
\* before the insertion) + 1; on the two seed records that is 3.
C7_IdIsLengthPlusOne ==
  [][(req'.op = "create" /\ res'.status = 201) =>
       /\ res'.body.id = Len(runs) + 1
       /\ runs'[Len(runs')].id = Len(runs) + 1
       /\ (runs = SeedRuns => res'.body.id = 3)]_vars

\* The first create on the two seed records has been answered with id 3.
C7_Witness ==
  /\ Created
  /\ Len(runs) = 3
  /\ runs[1] = SeedRuns[1]
  /\ runs[2] = SeedRuns[2]
  /\ res.body.id = 3

\* C8: a list that directly follows two successful creates returns a sequence
\* whose last two records are those two runs in creation order, with the
\* distinct ids n + 1 and n + 2, n the length before the first of the creates.
C8_ListAfterTwoCreates ==
  (req.op = "list" /\ Len(recent) = 2) =>
    LET n == Len(res.body) - 2
    IN  /\ res.status = 200
        /\ n >= 0
        /\ res.body[n + 1] = recent[1]
        /\ res.body[n + 2] = recent[2]
        /\ recent[1].id = n + 1
        /\ recent[2].id = n + 2
        /\ recent[1].id # recent[2].id

\* A list was served directly after two successful creates, on a collection
\* from which a record had been deleted before.
C8_Witness ==
  /\ req.op = "list"
  /\ Len(recent) = 2
  /\ Len(res.body) = 3

\* C9: list answers 200 with the whole collection, which is in insertion order
\* (the order in which its records were seeded or created), and changes nothing
\* in the collection.
C9_ListReturnsAllInOrder ==
  [][req'.op = "list" =>
       /\ res'.status = 200
       /\ res'.body = runs
       /\ runs' = runs
       /\ Len(born') = Len(res'.body)
       /\ \A i, j \in 1..Len(born') : i < j => born'[i] < born'[j]]_vars

\* A list was served after a record was deleted and a created one survived.
C9_Witness ==
  /\ req.op = "list"
  /\ Len(res.body) >= 2
  /\ clock > Len(runs)
  /\ born[Len(born)] > 2

\* C10: a successful create answers 201 with the created run and appends that
\* run as the last element, every earlier record staying as it was; and no
\* step of any handler changes a record that stays in the collection.
C10_CreateAppendsOnly ==
  [][/\ (req'.op = "create" /\ res'.status # 400) =>
          /\ res'.status = 201
          /\ runs' = Append(runs, res'.body)
          /\ Len(runs') = Len(runs) + 1
          /\ \A i \in 1..Len(runs) : runs'[i] = runs[i]
     /\ \A i \in 1..Len(runs'), j \in 1..Len(runs) :
          born'[i] = born[j] => runs'[i] = runs[j]]_vars

\* Two creates have been accepted and all four records are in the collection.
C10_Witness ==
  /\ Created
  /\ Len(runs) = 4
  /\ runs[4] = res.body
  /\ runs[1] = SeedRuns[1]


\* C11: ids are assigned monotonically: each successful create receives an id
\* strictly greater than the id given to every earlier successful create
\* (stated on the created records that are still in the collection).
C11_MonotonicIds ==
  \A i, j \in 1..Len(runs) :
    (2 < born[i] /\ born[i] < born[j]) => runs[i].id < runs[j].id

\* The value of a body field is a positive finite number.
Positive(val) == IsFinite(ToNumber(val)) /\ ToNumber(val).n > 0

\* p has the form M:SS: digits, one colon, then exactly two digits whose value
\* is at most 59.
IsMSS(p) ==
  \E c \in 2..Len(p) :
    /\ p[c] = ":"
    /\ \A i \in 1..(c - 1) : IsDigit(p[i])
    /\ Len(p) = c + 2
    /\ IsDigit(p[c + 1]) /\ IsDigit(p[c + 2])
    /\ 10 * DigitValue(p[c + 1]) + DigitValue(p[c + 2]) <= 59

\* C12: for every accepted create with positive distance and positive
\* duration the pace has the form M:SS, the seconds two digits from 00 to 59.
C12_PaceIsMSS ==
  (Created /\ Positive(req.body.distance) /\ Positive(req.body.duration))
    => IsMSS(res.body.pace)

\* The create body has a zero distance (the number 0 or the string "0") and a
\* date and a duration that pass the presence check.
ZeroDistance(b) ==
  /\ b.distance \in {Num(FromInt(0)), Str(<<"0">>)}
  /\ ToBoolean(b.date)
  /\ ToBoolean(b.duration)

\* p starts with s.
StartsWith(p, s) == Len(p) >= Len(s) /\ SubSeq(p, 1, Len(s)) = s

\* A pace string whose minutes are infinite or not a number.
InfiniteOrNaNPace(p) ==
  \/ StartsWith(p, <<"I", "n", "f", "i", "n", "i", "t", "y", ":">>)
  \/ StartsWith(p, <<"-", "I", "n", "f", "i", "n", "i", "t", "y", ":">>)
  \/ StartsWith(p, <<"N", "a", "N", ":">>)

\* The last create was accepted and appended a run with an infinite or
\* not-a-number pace.
AppendedUnguarded ==
  /\ res.status = 201
  /\ InfiniteOrNaNPace(res.body.pace)
  /\ Len(runs) = Len(SeedRuns) + 1
  /\ runs[Len(runs)] = res.body

\* C13 as claimed: a create whose distance is zero, as the number 0 or as the
\* string "0", with date and duration present, is accepted and a run with an
\* infinite or not-a-number pace is appended.
C13_ZeroDistanceAccepted ==
  (req.op = "create" /\ ZeroDistance(req.body)) => AppendedUnguarded

\* C13 as amended: the string "0" is accepted, the division by zero is
\* performed and a run with an infinite or not-a-number pace is appended; the
\* number 0 is refused with 400 by the presence check, the collection unchanged.
C13_ZeroStringAcceptedZeroNumberRefused ==
  (req.op = "create" /\ ZeroDistance(req.body)) =>
    IF req.body.distance = Str(<<"0">>)
      THEN AppendedUnguarded
      ELSE res.status = 400 /\ runs = SeedRuns

\* A create with distance "0" and duration 28 was accepted with pace
\* "Infinity:NaN".
C13_Witness ==
  /\ Created
  /\ req.body.distance = Str(<<"0">>)
  /\ req.body.duration = Num(FromInt(28))
  /\ res.body.pace =
       <<"I", "n", "f", "i", "n", "i", "t", "y", ":", "N", "a", "N">>

\* C14: the health check answers 200 with status "healthy" in every reachable
\* state of the collection and leaves the collection unchanged.
C14_HealthAlwaysHealthy ==
  [][req'.op = "health" =>
       /\ res'.status = 200
       /\ res'.body.status = "healthy"
       /\ runs' = runs]_vars

\* The health check has answered on a collection with a duplicate id.
C14_Witness ==
  /\ req.op = "health"
  /\ res.status = 200
  /\ \E i, j \in 1..Len(runs) : i # j /\ runs[i].id = runs[j].id

\* The health check has answered on the empty collection.
C14_WitnessEmpty == req.op = "health" /\ res.status = 200 /\ runs = <<>>


RECURSIVE Replay(_, _)
\* The array that handling the requests rs one after the other, starting from
\* arr, leaves.
Replay(arr, rs) ==
  IF rs = <<>> THEN arr ELSE Replay(Handled(arr, Head(rs)).runs, Tail(rs))

\* The requests of the first n exchanges of the log, in order.
Requests(n) == [i \in 1..n |-> log[i].req]

\* C15: the handlers of one process run without a suspension point, so the
\* collection and the responses of concurrently arriving requests are those
\* of handling the requests one at a time, in the order in which the event
\* loop took them; two creates with no delete between them never compute
\* their id from the same collection length.
C15_HandlersSerialize ==
  /\ runs = Replay(SeedRuns, Requests(Len(log)))
  /\ \A i \in 1..Len(log) :
       log[i].res = Handled(Replay(SeedRuns, Requests(i - 1)), log[i].req).res
  /\ \A i, j \in 1..Len(log) :
       ( /\ i < j
         /\ log[i].res.status = 201 /\ log[j].res.status = 201
         /\ \A k \in (i + 1)..(j - 1) : log[k].res.status # 204 )
       => log[i].res.body.id # log[j].res.body.id

\* Two creates were waiting at the same time, both having arrived at the same
\* collection length, and both have been handled.
C15_Witness ==
  \E i \in 1..(Len(log) - 1) :
    /\ log[i].req.op = "create" /\ log[i].res.status = 201
    /\ log[i + 1].req.op = "create" /\ log[i + 1].res.status = 201
    /\ log[i].seen = log[i + 1].seen
    /\ inflight = {}

\* The requests that instance inst has served, in order.
ServedBy(inst) ==
  LET mine == SelectSeq(log, LAMBDA e : e.inst = inst)
  IN  [i \in 1..Len(mine) |-> mine[i].req]

\* C16: of two instances side by side, each starts from its own copy of the
\* two seed records and its collection is what its own requests made of them:
\* a create or delete handled by one never changes the collection of the other.
C16_InstancesIndependent ==
  /\ runs = Replay(SeedRuns, ServedBy(1))
  /\ peer = Replay(SeedRuns, ServedBy(2))

\* A run was created through the first instance, and a list that the second
\* instance served afterwards does not contain it.
C16_Witness ==
  \E i, j \in 1..Len(log) :
    /\ i < j
    /\ log[i].inst = 1 /\ log[i].req.op = "create" /\ log[i].res.status = 201
    /\ log[j].inst = 2 /\ log[j].req.op = "list"
    /\ \A k \in 1..Len(log[j].res.body) : log[j].res.body[k] # log[i].res.body
    /\ \E k \in 1..Len(runs) : runs[k] = log[i].res.body


\* The script has ended.
Terminated == pc = <<>> /\ status >= 0

\* C17: in a full deployment, when kubectl wait for the deployment exits
\* non-zero, the script prints the warning that the deployment might not be
\* fully ready yet, shows the deployment status and reports completion.
C17_WaitFailureWarnsAndContinues ==
  ( /\ Terminated
    /\ arg = ""
    /\ failed = "kubectl wait deployment/running-app" )
  => /\ "Deployment might not be fully ready yet" \in printed
     /\ "Deployment Status:" \in printed
     /\ "Deployment complete!" \in printed

\* C18: started with effective user id 0, the script runs no program at all,
\* whatever its argument, and ends with exit status 1.
C18_RootRunsNothing ==
  euid = 0 => /\ ran = {}
              /\ Terminated => status = 1

\* Root asked for the installation of the tools and the script has ended
\* with status 1, having printed the refusal.
C18_Witness ==
  /\ euid = 0
  /\ arg = "install-tools"
  /\ Terminated
  /\ status = 1
  /\ "This script should not be run as root (with sudo)!" \in printed

=============================================================================
